---- MODULE Spec2Model ----
(***************************************************************************)
(* State-machine model of the contract DAO_Treasury_Hedge_FHE              *)
(* (src/unnamed/part_000): access control, cooldowns, the batch ledger and *)
(* the decryption request / callback protocol.                             *)
(*                                                                         *)
(* Every external function is one action.  A call that reverts leaves the  *)
(* whole state as it was (EVM revert); the error it raises is computed by  *)
(* the guards of the function, in the order the code runs them.  A call    *)
(* that emits DecryptionCompleted appends the event to `completed`.         *)
(* The FHE library is an external collaborator: a handle is                *)
(* initialized iff it is not the zero handle, request ids are issued by a  *)
(* counter, and the outcome of the signature check is an input.            *)
(***************************************************************************)
EXTENDS Integers, Sequences, FiniteSets, TLC

\* ---------------------------------------------------------------- bounds
MaxSteps    == 5      \* state-changing calls, clock advances and noted reverts in a run
MaxBatch    == 2      \* openNewBatch is not taken beyond this batch id
MaxRequests == 2      \* decryption requests the oracle accepts

\* ------------------------------------------------------------ universes
DefaultCooldown == 60                    \* the constructor's cooldownSeconds
TickChoices == {DefaultCooldown \div 2, DefaultCooldown}   \* seconds the clock advances by
StartTime   == 2 * DefaultCooldown       \* block.timestamp at deployment
Actors      == {"alice", "bob"}
Deployer    == "alice"
ThisAddress == "this"
Asset1      == "0x1111"
Asset2      == "0x2222"
OtherAsset  == "0x3333"
Assets      == {Asset1, Asset2, OtherAsset}
ZeroHandle  == 0
Handles     == {ZeroHandle, 1, 2}
BatchIds    == 0 .. MaxBatch
RequestIds  == 0 .. MaxRequests
UintMax     == 2^20 - 1                  \* stands for type(uint256).max
CooldownChoices == {0, DefaultCooldown, UintMax}
ClearChoices == {<<100, 0, 50, 20>>, <<1, 2, 3, 4>>}
ZeroHash    == <<>>

VARIABLES
    owner, isProvider, paused, cooldownSeconds,
    lastSubmissionTime, lastDecryptionRequestTime,
    currentBatchId, isBatchClosed, decryptionContexts,
    encryptedAssetAmounts, encryptedHedgeAmounts,
    now,             \* block.timestamp
    requestCounter,  \* request ids the oracle has issued so far
    completed,       \* the DecryptionCompleted events emitted, in order, each
                     \* with the cleartexts of the callback that emitted it
    requested,       \* the DecryptionRequested events emitted, in order, each
                     \* with the handle list handed to the oracle
    steps,           \* state-changing steps taken so far
    rejected         \* request ids for which a callback has reverted with
                     \* StateMismatch or InvalidDecryptionProof

registryVars == <<owner, isProvider, paused, cooldownSeconds>>
cooldownVars == <<lastSubmissionTime, lastDecryptionRequestTime>>
ledgerVars   == <<currentBatchId, isBatchClosed, encryptedAssetAmounts, encryptedHedgeAmounts>>
contractVars == <<registryVars, cooldownVars, ledgerVars, decryptionContexts>>
envVars      == <<now, requestCounter, completed, requested>>
vars         == <<contractVars, envVars, steps, rejected>>

\* A call whose guards raise an error reverts: the EVM rolls the whole
\* transaction back, events included, so it is a stuttering step.  Each action
\* below is the successful call, guarded by "no error".
\* A step that changes the state counts against MaxSteps; a call that stores
\* what is already stored does not.  Once the budget is used up the run ends.
Counted(call) ==
    /\ steps < MaxSteps
    /\ call
    /\ steps' = IF <<contractVars, envVars>>' # <<contractVars, envVars>>
                THEN steps + 1 ELSE steps
    /\ UNCHANGED rejected

\* Guards run in order: the first error raised is the error of the call.
Then(first, rest) == IF first # "ok" THEN first ELSE rest

\* ------------------------------------------------------------ modifiers
\* Faulty variant: the deployer keeps passing the owner check after a transfer.
onlyOwner_OrDeployer(sender) ==
    IF sender # owner /\ sender # Deployer THEN "NotOwner" ELSE "ok"

onlyOwner(sender) == IF sender # owner THEN "NotOwner" ELSE "ok"

\* Faulty variant: the owner passes the provider check too.
onlyProvider_OrOwner(sender) ==
    IF ~isProvider[sender] /\ sender # owner THEN "NotProvider" ELSE "ok"

onlyProvider(sender) == IF ~isProvider[sender] THEN "NotProvider" ELSE "ok"

whenNotPaused == IF paused THEN "Paused" ELSE "ok"

\* Faulty variant: the window is measured from the decryption-request timestamp.
submissionCooldown_WrongRecord(submitter) ==
    IF lastDecryptionRequestTime[submitter] + cooldownSeconds > UintMax THEN "Panic"
    ELSE IF now < lastDecryptionRequestTime[submitter] + cooldownSeconds
    THEN "CooldownActive" ELSE "ok"

\* Faulty variant: the end of the window still belongs to the window.
submissionCooldown_Inclusive(submitter) ==
    IF lastSubmissionTime[submitter] + cooldownSeconds > UintMax THEN "Panic"
    ELSE IF now <= lastSubmissionTime[submitter] + cooldownSeconds
    THEN "CooldownActive" ELSE "ok"

\* Faulty variant: one submission record is shared by all actors.
submissionCooldown_Shared(submitter) ==
    LET last == CHOOSE t \in {lastSubmissionTime[a] : a \in Actors} :
                    \A a \in Actors : lastSubmissionTime[a] <= t
    IN  IF last + cooldownSeconds > UintMax THEN "Panic"
        ELSE IF now < last + cooldownSeconds THEN "CooldownActive" ELSE "ok"

\* Checked arithmetic (Solidity 0.8): a sum beyond uint256 reverts with a Panic.
submissionCooldown(submitter) ==
    IF lastSubmissionTime[submitter] + cooldownSeconds > UintMax THEN "Panic"
    ELSE IF now < lastSubmissionTime[submitter] + cooldownSeconds
    THEN "CooldownActive" ELSE "ok"

decryptionCooldown(requester) ==
    IF lastDecryptionRequestTime[requester] + cooldownSeconds > UintMax THEN "Panic"
    ELSE IF now < lastDecryptionRequestTime[requester] + cooldownSeconds
    THEN "CooldownActive" ELSE "ok"

\* ------------------------------------------------------- FHE capability
isInitialized(value) == value # ZeroHandle

toBytes32(value) == value

_initIfNeeded(value) == IF ~isInitialized(value) THEN "NotInitialized" ELSE "ok"

_hashCiphertexts(cts) == <<cts, ThisAddress>>

\* The ordered handle list of a batch: per hard-coded asset, amount then hedge.
SnapshotAssets == <<Asset1, Asset2>>

\* Faulty variant: the list holds all amounts first, then all hedges.
Ciphertexts_AmountsFirst(batchId) ==
    [k \in 1 .. 2 * Len(SnapshotAssets) |->
        IF k <= Len(SnapshotAssets)
        THEN toBytes32(encryptedAssetAmounts[batchId][SnapshotAssets[k]])
        ELSE toBytes32(encryptedHedgeAmounts[batchId][SnapshotAssets[k - Len(SnapshotAssets)]])]

\* Faulty variant: the snapshot also covers a third asset.
Ciphertexts_IncludesOther(batchId) ==
    [k \in 1 .. 2 * Len(SnapshotAssets) + 2 |->
        IF k > 2 * Len(SnapshotAssets)
        THEN IF k % 2 = 1
             THEN toBytes32(encryptedAssetAmounts[batchId][OtherAsset])
             ELSE toBytes32(encryptedHedgeAmounts[batchId][OtherAsset])
        ELSE IF k % 2 = 1
        THEN toBytes32(encryptedAssetAmounts[batchId][SnapshotAssets[(k + 1) \div 2]])
        ELSE toBytes32(encryptedHedgeAmounts[batchId][SnapshotAssets[k \div 2]])]

Ciphertexts(batchId) ==
    [k \in 1 .. 2 * Len(SnapshotAssets) |->
        IF k % 2 = 1
        THEN toBytes32(encryptedAssetAmounts[batchId][SnapshotAssets[(k + 1) \div 2]])
        ELSE toBytes32(encryptedHedgeAmounts[batchId][SnapshotAssets[k \div 2]])]

\* ------------------------------------------------------------------ Init
Init ==
    /\ owner = Deployer
    /\ isProvider = [a \in Actors |-> FALSE]
    /\ paused = FALSE
    /\ cooldownSeconds = DefaultCooldown
    /\ lastSubmissionTime = [a \in Actors |-> 0]
    /\ lastDecryptionRequestTime = [a \in Actors |-> 0]
    /\ currentBatchId = 1
    /\ isBatchClosed = [b \in BatchIds |-> FALSE]
    /\ decryptionContexts =
           [r \in RequestIds |-> [batchId |-> 0, stateHash |-> ZeroHash, processed |-> FALSE]]
    /\ encryptedAssetAmounts = [b \in BatchIds |-> [a \in Assets |-> ZeroHandle]]
    /\ encryptedHedgeAmounts = [b \in BatchIds |-> [a \in Assets |-> ZeroHandle]]
    /\ now = StartTime
    /\ requestCounter = 0
    /\ completed = <<>>
    /\ requested = <<>>
    /\ steps = 0
    /\ rejected = {}

\* -------------------------------------------------- AccessControlRegistry
transferOwnership(sender, newOwner) ==
    /\ onlyOwner(sender) = "ok"
    /\ owner' = newOwner
    /\ UNCHANGED <<isProvider, paused, cooldownSeconds, cooldownVars, ledgerVars,
                   decryptionContexts, envVars>>

addProvider(sender, provider) ==
    /\ onlyOwner(sender) = "ok"
    /\ isProvider' = [isProvider EXCEPT ![provider] = TRUE]
    /\ UNCHANGED <<owner, paused, cooldownSeconds, cooldownVars, ledgerVars,
                   decryptionContexts, envVars>>

removeProvider(sender, provider) ==
    /\ onlyOwner(sender) = "ok"
    /\ isProvider' = [isProvider EXCEPT ![provider] = FALSE]
    /\ UNCHANGED <<owner, paused, cooldownSeconds, cooldownVars, ledgerVars,
                   decryptionContexts, envVars>>

\* Faulty variant: setPaused carries whenNotPaused.
setPaused_WhenNotPaused(sender, _paused) ==
    /\ Then(onlyOwner(sender), whenNotPaused) = "ok"
    /\ paused' = _paused
    /\ UNCHANGED <<owner, isProvider, cooldownSeconds, cooldownVars, ledgerVars,
                   decryptionContexts, envVars>>

setPaused(sender, _paused) ==
    /\ onlyOwner(sender) = "ok"
    /\ paused' = _paused
    /\ UNCHANGED <<owner, isProvider, cooldownSeconds, cooldownVars, ledgerVars,
                   decryptionContexts, envVars>>

setCooldownSeconds(sender, _cooldownSeconds) ==
    /\ onlyOwner(sender) = "ok"
    /\ cooldownSeconds' = _cooldownSeconds
    /\ UNCHANGED <<owner, isProvider, paused, cooldownVars, ledgerVars,
                   decryptionContexts, envVars>>

\* ------------------------------------------------------------ BatchLedger
openNewBatchError(sender) == Then(onlyOwner(sender), whenNotPaused)

openNewBatch(sender) ==
    /\ openNewBatchError(sender) = "ok"
    /\ currentBatchId < MaxBatch
    /\ currentBatchId' = currentBatchId + 1
    /\ UNCHANGED <<registryVars, cooldownVars, isBatchClosed, encryptedAssetAmounts,
                   encryptedHedgeAmounts, decryptionContexts, envVars>>

\* Faulty variant: closing a batch that is already closed is rejected.
closeCurrentBatchError_RejectsClosed(sender) ==
    Then(onlyOwner(sender),
    Then(whenNotPaused,
         IF isBatchClosed[currentBatchId] THEN "InvalidBatch" ELSE "ok"))

closeCurrentBatchError(sender) == Then(onlyOwner(sender), whenNotPaused)

\* Faulty variant: closing a batch that is already closed reopens it.
closeCurrentBatch_Toggles(sender) ==
    /\ closeCurrentBatchError(sender) = "ok"
    /\ isBatchClosed' = [isBatchClosed EXCEPT ![currentBatchId] = ~isBatchClosed[currentBatchId]]
    /\ UNCHANGED <<registryVars, cooldownVars, currentBatchId, encryptedAssetAmounts,
                   encryptedHedgeAmounts, decryptionContexts, envVars>>

\* Faulty variant: closing also closes every earlier batch.
closeCurrentBatch_ClosesEarlier(sender) ==
    /\ closeCurrentBatchError(sender) = "ok"
    /\ isBatchClosed' = [b \in BatchIds |->
                            IF b >= 1 /\ b <= currentBatchId THEN TRUE
                            ELSE isBatchClosed[b]]
    /\ UNCHANGED <<registryVars, cooldownVars, currentBatchId, encryptedAssetAmounts,
                   encryptedHedgeAmounts, decryptionContexts, envVars>>

closeCurrentBatch(sender) ==
    /\ closeCurrentBatchError(sender) = "ok"
    /\ isBatchClosed' = [isBatchClosed EXCEPT ![currentBatchId] = TRUE]
    /\ UNCHANGED <<registryVars, cooldownVars, currentBatchId, encryptedAssetAmounts,
                   encryptedHedgeAmounts, decryptionContexts, envVars>>

\* Faulty variant: the closed-batch check is missing.
submitError_NoClosedCheck(sender, batchId, amount) ==
    Then(onlyProvider(sender),
    Then(whenNotPaused,
    Then(submissionCooldown(sender),
    Then(IF batchId # currentBatchId THEN "InvalidBatch" ELSE "ok",
         _initIfNeeded(amount)))))

\* The guards of both submit functions, in the order the code runs them:
\* the modifiers onlyProvider, whenNotPaused, submissionCooldown, then the body.
submitError(sender, batchId, amount) ==
    Then(onlyProvider(sender),
    Then(whenNotPaused,
    Then(submissionCooldown(sender),
    Then(IF batchId # currentBatchId THEN "InvalidBatch" ELSE "ok",
    Then(IF isBatchClosed[batchId] THEN "BatchClosed" ELSE "ok",
         _initIfNeeded(amount))))))

\* Faulty variant: a call that passes the modifiers but fails in the body ends
\* without reverting, so the modifier's trailing timestamp write is kept.
submitEncryptedAssetAmount_StampOnFailure(sender, batchId, asset, amount) ==
    /\ Then(onlyProvider(sender), Then(whenNotPaused, submissionCooldown(sender))) = "ok"
    /\ encryptedAssetAmounts' =
           IF submitError(sender, batchId, amount) = "ok"
           THEN [encryptedAssetAmounts EXCEPT ![batchId][asset] = amount]
           ELSE encryptedAssetAmounts
    /\ lastSubmissionTime' = [lastSubmissionTime EXCEPT ![sender] = now]
    /\ UNCHANGED <<registryVars, lastDecryptionRequestTime, currentBatchId,
                   isBatchClosed, encryptedHedgeAmounts, decryptionContexts, envVars>>

submitEncryptedAssetAmount(sender, batchId, asset, amount) ==
    /\ submitError(sender, batchId, amount) = "ok"
    /\ encryptedAssetAmounts' =
           [encryptedAssetAmounts EXCEPT ![batchId][asset] = amount]
    /\ lastSubmissionTime' = [lastSubmissionTime EXCEPT ![sender] = now]
    /\ UNCHANGED <<registryVars, lastDecryptionRequestTime, currentBatchId,
                   isBatchClosed, encryptedHedgeAmounts, decryptionContexts, envVars>>

\* Faulty variant: the hedge submission also clears the amount of that asset.
submitEncryptedHedgeAmount_ClearsAmount(sender, batchId, asset, amount) ==
    /\ submitError(sender, batchId, amount) = "ok"
    /\ encryptedHedgeAmounts' =
           [encryptedHedgeAmounts EXCEPT ![batchId][asset] = amount]
    /\ encryptedAssetAmounts' =
           [encryptedAssetAmounts EXCEPT ![batchId][asset] = ZeroHandle]
    /\ lastSubmissionTime' = [lastSubmissionTime EXCEPT ![sender] = now]
    /\ UNCHANGED <<registryVars, lastDecryptionRequestTime, currentBatchId,
                   isBatchClosed, decryptionContexts, envVars>>

submitEncryptedHedgeAmount(sender, batchId, asset, amount) ==
    /\ submitError(sender, batchId, amount) = "ok"
    /\ encryptedHedgeAmounts' =
           [encryptedHedgeAmounts EXCEPT ![batchId][asset] = amount]
    /\ lastSubmissionTime' = [lastSubmissionTime EXCEPT ![sender] = now]
    /\ UNCHANGED <<registryVars, lastDecryptionRequestTime, currentBatchId,
                   isBatchClosed, encryptedAssetAmounts, decryptionContexts, envVars>>

\* ---------------------------------------------------- DecryptionCoordinator
\* Faulty variant: the closed-batch check is missing.
requestError_NoClosedCheck(sender, batchId) ==
    Then(onlyOwner(sender),
    Then(whenNotPaused,
         decryptionCooldown(sender)))

\* The guards of requestBatchDecryption: the modifiers onlyOwner, whenNotPaused,
\* decryptionCooldown, then the body's check that the batch is closed.
requestError(sender, batchId) ==
    Then(onlyOwner(sender),
    Then(whenNotPaused,
    Then(decryptionCooldown(sender),
         IF ~isBatchClosed[batchId] THEN "InvalidBatch" ELSE "ok")))

\* Faulty variant: the request also stamps the submission cooldown of the caller.
requestBatchDecryption_StampsSubmission(sender, batchId) ==
    LET cts       == Ciphertexts(batchId)
        stateHash == _hashCiphertexts(cts)
        requestId == requestCounter + 1
    IN  /\ requestError(sender, batchId) = "ok"
        /\ requestCounter < MaxRequests
        /\ requestCounter' = requestId
        /\ decryptionContexts' =
               [decryptionContexts EXCEPT ![requestId] =
                   [batchId |-> batchId, stateHash |-> stateHash, processed |-> FALSE]]
        /\ lastDecryptionRequestTime' =
               [lastDecryptionRequestTime EXCEPT ![sender] = now]
        /\ requested' = Append(requested,
               [requestId |-> requestId, batchId |-> batchId,
                stateHash |-> stateHash, cts |-> cts])
        /\ lastSubmissionTime' = [lastSubmissionTime EXCEPT ![sender] = now]
        /\ UNCHANGED <<registryVars, ledgerVars, now, completed>>

requestBatchDecryption(sender, batchId) ==
    LET cts       == Ciphertexts(batchId)
        stateHash == _hashCiphertexts(cts)
        requestId == requestCounter + 1      \* FHE.requestDecryption: a fresh id
    IN  /\ requestError(sender, batchId) = "ok"
        /\ requestCounter < MaxRequests
        /\ requestCounter' = requestId
        /\ decryptionContexts' =
               [decryptionContexts EXCEPT ![requestId] =
                   [batchId |-> batchId, stateHash |-> stateHash, processed |-> FALSE]]
        /\ requested' = Append(requested,
               [requestId |-> requestId, batchId |-> batchId,
                stateHash |-> stateHash, cts |-> cts])
        /\ lastDecryptionRequestTime' =
               [lastDecryptionRequestTime EXCEPT ![sender] = now]
        /\ UNCHANGED <<registryVars, lastSubmissionTime, ledgerVars, now, completed>>

\* Faulty variant: the replay guard is missing.
callbackError_NoReplayGuard(requestId, proofOk) ==
    LET context == decryptionContexts[requestId] IN
    Then(IF _hashCiphertexts(Ciphertexts(context.batchId)) # context.stateHash
         THEN "StateMismatch" ELSE "ok",
         IF ~proofOk THEN "InvalidDecryptionProof" ELSE "ok")

\* Faulty variant: the state verification is missing.
callbackError_NoHashCheck(requestId, proofOk) ==
    LET context == decryptionContexts[requestId] IN
    Then(IF context.processed THEN "ReplayAttempt" ELSE "ok",
         IF ~proofOk THEN "InvalidDecryptionProof" ELSE "ok")

\* Faulty variant: the proof verification is missing.
callbackError_NoProofCheck(requestId, proofOk) ==
    LET context == decryptionContexts[requestId] IN
    Then(IF context.processed THEN "ReplayAttempt" ELSE "ok",
         IF _hashCiphertexts(Ciphertexts(context.batchId)) # context.stateHash
         THEN "StateMismatch" ELSE "ok")

\* Faulty variant: a callback is accepted only once every request issued
\* before it has been finalized.
callbackError_InOrder(requestId, proofOk) ==
    LET context == decryptionContexts[requestId] IN
    Then(IF context.processed THEN "ReplayAttempt" ELSE "ok",
    Then(IF _hashCiphertexts(Ciphertexts(context.batchId)) # context.stateHash
         THEN "StateMismatch" ELSE "ok",
    Then(IF ~proofOk THEN "InvalidDecryptionProof" ELSE "ok",
         IF \E r \in 1 .. requestId - 1 : ~decryptionContexts[r].processed
         THEN "StateMismatch" ELSE "ok")))

\* The guards of myCallback; proofOk is what FHE.checkSignatures returns.
callbackError(requestId, proofOk) ==
    LET context == decryptionContexts[requestId] IN
    Then(IF context.processed THEN "ReplayAttempt" ELSE "ok",
    Then(IF _hashCiphertexts(Ciphertexts(context.batchId)) # context.stateHash
         THEN "StateMismatch" ELSE "ok",
         IF ~proofOk THEN "InvalidDecryptionProof" ELSE "ok"))

\* Faulty variant: the context is deleted once the result is emitted.
myCallback_DeletesContext(sender, requestId, cleartexts, proofOk) ==
    LET context      == decryptionContexts[requestId]
        numAssets    == Len(SnapshotAssets)
        assetAmounts == [i \in 1 .. numAssets |-> cleartexts[2 * i - 1]]
        hedgeAmounts == [i \in 1 .. numAssets |-> cleartexts[2 * i]]
    IN  /\ IF context.processed THEN FALSE
           ELSE IF _hashCiphertexts(Ciphertexts(context.batchId)) # context.stateHash
           THEN FALSE ELSE proofOk
        /\ decryptionContexts' =
               [decryptionContexts EXCEPT ![requestId] =
                   [batchId |-> 0, stateHash |-> ZeroHash, processed |-> FALSE]]
        /\ completed' = Append(completed,
               [requestId |-> requestId, batchId |-> context.batchId,
                assetAmounts |-> assetAmounts, hedgeAmounts |-> hedgeAmounts,
                cleartexts |-> cleartexts])
        /\ UNCHANGED <<registryVars, cooldownVars, ledgerVars, now, requestCounter, requested>>

\* Faulty variant: the cleartexts are decoded as all amounts, then all hedges.
myCallback_AmountsFirst(sender, requestId, cleartexts, proofOk) ==
    LET context      == decryptionContexts[requestId]
        numAssets    == Len(SnapshotAssets)
        assetAmounts == [i \in 1 .. numAssets |-> cleartexts[i]]
        hedgeAmounts == [i \in 1 .. numAssets |-> cleartexts[numAssets + i]]
    IN  /\ callbackError(requestId, proofOk) = "ok"
        /\ decryptionContexts' =
               [decryptionContexts EXCEPT ![requestId].processed = TRUE]
        /\ completed' = Append(completed,
               [requestId |-> requestId, batchId |-> context.batchId,
                assetAmounts |-> assetAmounts, hedgeAmounts |-> hedgeAmounts,
                cleartexts |-> cleartexts])
        /\ UNCHANGED <<registryVars, cooldownVars, ledgerVars, now, requestCounter, requested>>

\* Faulty variant: only the owner may deliver a callback.
myCallback_OwnerOnly(sender, requestId, cleartexts, proofOk) ==
    LET context      == decryptionContexts[requestId]
        numAssets    == Len(SnapshotAssets)
        assetAmounts == [i \in 1 .. numAssets |-> cleartexts[2 * i - 1]]
        hedgeAmounts == [i \in 1 .. numAssets |-> cleartexts[2 * i]]
    IN  /\ onlyOwner(sender) = "ok"
        /\ callbackError(requestId, proofOk) = "ok"
        /\ decryptionContexts' =
               [decryptionContexts EXCEPT ![requestId].processed = TRUE]
        /\ completed' = Append(completed,
               [requestId |-> requestId, batchId |-> context.batchId,
                assetAmounts |-> assetAmounts, hedgeAmounts |-> hedgeAmounts,
                cleartexts |-> cleartexts])
        /\ UNCHANGED <<registryVars, cooldownVars, ledgerVars, now, requestCounter, requested>>

myCallback(sender, requestId, cleartexts, proofOk) ==
    LET context      == decryptionContexts[requestId]
        numAssets    == Len(SnapshotAssets)
        assetAmounts == [i \in 1 .. numAssets |-> cleartexts[2 * i - 1]]
        hedgeAmounts == [i \in 1 .. numAssets |-> cleartexts[2 * i]]
    IN  /\ callbackError(requestId, proofOk) = "ok"
        /\ decryptionContexts' =
               [decryptionContexts EXCEPT ![requestId].processed = TRUE]
        /\ completed' = Append(completed,
               [requestId |-> requestId, batchId |-> context.batchId,
                assetAmounts |-> assetAmounts, hedgeAmounts |-> hedgeAmounts,
                cleartexts |-> cleartexts])
        /\ UNCHANGED <<registryVars, cooldownVars, ledgerVars, now, requestCounter, requested>>

\* ------------------------------------------------------------------ clock
Tick(dt) ==
    /\ now' = now + dt
    /\ UNCHANGED <<contractVars, requestCounter, completed, requested>>

Next ==
    \/ \E s \in Actors, n \in Actors : Counted(transferOwnership(s, n))
    \/ \E s \in Actors, p \in Actors : Counted(addProvider(s, p))
    \/ \E s \in Actors, p \in Actors : Counted(removeProvider(s, p))
    \/ \E s \in Actors, b \in BOOLEAN : Counted(setPaused(s, b))
    \/ \E s \in Actors, c \in CooldownChoices : Counted(setCooldownSeconds(s, c))
    \/ \E s \in Actors : Counted(openNewBatch(s))
    \/ \E s \in Actors : Counted(closeCurrentBatch(s))
    \/ \E s \in Actors, b \in BatchIds, a \in Assets, h \in Handles :
           Counted(submitEncryptedAssetAmount(s, b, a, h))
    \/ \E s \in Actors, b \in BatchIds, a \in Assets, h \in Handles :
           Counted(submitEncryptedHedgeAmount(s, b, a, h))
    \/ \E s \in Actors, b \in BatchIds : Counted(requestBatchDecryption(s, b))
    \/ \E s \in Actors, r \in RequestIds, c \in ClearChoices, p \in BOOLEAN :
           Counted(myCallback(s, r, c, p))
    \/ \E dt \in TickChoices : Counted(Tick(dt))

Spec == Init /\ [][Next]_vars

\* ------------------------------------------- a run that starts further on
\* The state the contract is in at StartTime after the deployer has called
\* addProvider(p), p has called submitEncryptedAssetAmount(1, Asset1, 1), and
\* the deployer has called closeCurrentBatch(), openNewBatch() and
\* closeCurrentBatch(): batches 1 and 2 are closed, batch 1 holds one handle,
\* and no request has been made.  Spec reaches this state in five steps.
TwoClosedReached ==
    /\ owner = Deployer
    /\ isProvider = [a \in Actors |-> a # Deployer]
    /\ paused = FALSE
    /\ cooldownSeconds = DefaultCooldown
    /\ lastSubmissionTime = [a \in Actors |-> IF a # Deployer THEN StartTime ELSE 0]
    /\ lastDecryptionRequestTime = [a \in Actors |-> 0]
    /\ currentBatchId = 2
    /\ isBatchClosed = [b \in BatchIds |-> b \in {1, 2}]
    /\ decryptionContexts =
           [r \in RequestIds |-> [batchId |-> 0, stateHash |-> ZeroHash, processed |-> FALSE]]
    /\ encryptedAssetAmounts =
           [b \in BatchIds |-> [a \in Assets |->
               IF b = 1 /\ a = Asset1 THEN 1 ELSE ZeroHandle]]
    /\ encryptedHedgeAmounts = [b \in BatchIds |-> [a \in Assets |-> ZeroHandle]]
    /\ now = StartTime
    /\ requestCounter = 0
    /\ completed = <<>>
    /\ requested = <<>>
    /\ rejected = {}

\* A run that continues from that state has the whole step budget ahead.
InitTwoClosed == TwoClosedReached /\ steps = 0

\* Runs from deployment, and runs that continue from InitTwoClosed.
SpecTwoClosed == (Init \/ InitTwoClosed) /\ [][Next]_vars

\* ------------------------------------------------- callbacks that revert
\* A call of myCallback that fails one of the two integrity checks: the revert
\* leaves the contract as it is; the observer notes the request id.  A noted
\* rejection counts against MaxSteps.
myCallbackRejected(sender, requestId, cleartexts, proofOk) ==
    /\ steps < MaxSteps
    /\ callbackError(requestId, proofOk) \in {"StateMismatch", "InvalidDecryptionProof"}
    /\ rejected' = rejected \cup {requestId}
    /\ steps' = steps + 1
    /\ UNCHANGED <<contractVars, envVars>>

NextWithRejections ==
    \/ Next
    \/ \E s \in Actors, r \in RequestIds, c \in ClearChoices, p \in BOOLEAN :
           myCallbackRejected(s, r, c, p)

SpecWithRejections == Init /\ [][NextWithRejections]_vars

\* ------------------------------------------------------- claim vocabulary
\* A context was stored for r by a successful requestBatchDecryption.
Issued(r) == r \in 1 .. requestCounter

\* The hash recomputed from the submissions now stored for the context's batch
\* equals the hash the context holds.
HashMatches(r) ==
    _hashCiphertexts(Ciphertexts(decryptionContexts[r].batchId))
        = decryptionContexts[r].stateHash

\* DecryptionCompleted events emitted for r so far.
Emitted(r) == Cardinality({i \in DOMAIN completed : completed[i].requestId = r})

\* No call of myCallback for r with this proof outcome can succeed: every such
\* call reverts, so it changes no state and emits nothing.
CallbackReverts(r, proofOk) ==
    \A s \in Actors, c \in ClearChoices : ~ENABLED myCallback(s, r, c, proofOk)

\* No submit call of s for batch b with handle h can succeed, whatever the asset.
SubmitReverts(s, b, h) ==
    \A a \in Assets : /\ ~ENABLED submitEncryptedAssetAmount(s, b, a, h)
                      /\ ~ENABLED submitEncryptedHedgeAmount(s, b, a, h)

\* s made a successful submission and is still inside the cooldown window.
InSubmitWindow(s) ==
    /\ lastSubmissionTime[s] > 0
    /\ now < lastSubmissionTime[s] + cooldownSeconds

\* ------------------------------------------------------------------ C1
\* C1: a callback for a requestId whose context is already processed fails with
\* ReplayAttempt whatever the proof (the hash of a processed context matches),
\* no such call can succeed, and DecryptionCompleted has been emitted at most
\* once per requestId.
C1_ReplayRejected ==
    /\ \A r \in RequestIds : decryptionContexts[r].processed =>
           \A p \in BOOLEAN : /\ callbackError(r, p) = "ReplayAttempt"
                              /\ CallbackReverts(r, p)
    /\ \A r \in RequestIds : Emitted(r) <= 1

\* A processed context with a matching hash whose completion event was emitted.
C1_Witness ==
    \E r \in RequestIds : /\ decryptionContexts[r].processed
                          /\ HashMatches(r)
                          /\ Emitted(r) = 1

\* ------------------------------------------------------------------ C2
\* C2: in every step, a stored context keeps its batchId and its stateHash, and
\* a processed flag that is true stays true.
C2_ContextImmutable ==
    [][\A r \in RequestIds : Issued(r) =>
          /\ decryptionContexts'[r].batchId = decryptionContexts[r].batchId
          /\ decryptionContexts'[r].stateHash = decryptionContexts[r].stateHash
          /\ (decryptionContexts[r].processed => decryptionContexts'[r].processed)]_vars

\* A context that was stored and then finalized.
C2_Witness ==
    \E r \in RequestIds : /\ Issued(r)
                          /\ decryptionContexts[r].processed
                          /\ decryptionContexts[r].batchId = 1
                          /\ decryptionContexts[r].stateHash # ZeroHash

\* ------------------------------------------------------------------ C3
\* C3: a callback for an unprocessed context whose recomputed hash differs from
\* the stored stateHash fails with StateMismatch whatever the proof, and no such
\* call can succeed (processed stays false, nothing is emitted).
C3_StateMismatchRejected ==
    \A r \in RequestIds :
        (~decryptionContexts[r].processed /\ ~HashMatches(r)) =>
            \A p \in BOOLEAN : /\ callbackError(r, p) = "StateMismatch"
                               /\ CallbackReverts(r, p)

\* An unprocessed context with a differing hash, while requests are pending.
C3_Witness ==
    /\ requestCounter > 0
    /\ \E r \in RequestIds : ~decryptionContexts[r].processed /\ ~HashMatches(r)

\* ------------------------------------------------------------------ C4
\* C4: a callback for an unprocessed context with a matching hash and a proof
\* the proof check rejects fails with InvalidDecryptionProof, and no such call
\* can succeed.
C4_InvalidProofRejected ==
    \A r \in RequestIds :
        (~decryptionContexts[r].processed /\ HashMatches(r)) =>
            /\ callbackError(r, FALSE) = "InvalidDecryptionProof"
            /\ CallbackReverts(r, FALSE)

\* A pending request: stored, unprocessed, hash matching.
C4_Witness ==
    \E r \in RequestIds : /\ Issued(r)
                          /\ ~decryptionContexts[r].processed
                          /\ HashMatches(r)

\* ------------------------------------------------------------------ C5
\* C5: among the batch ids issued so far at most one batch is Open, and an Open
\* batch is the current one.
C5_SingleOpenBatch ==
    /\ Cardinality({b \in 1 .. currentBatchId : ~isBatchClosed[b]}) <= 1
    /\ \A b \in 1 .. currentBatchId : ~isBatchClosed[b] => b = currentBatchId

\* ------------------------------------------------------------------ C6
WrongBatch(b) == b # currentBatchId

ClosedCurrent(b) == b = currentBatchId /\ isBatchClosed[b]

\* C6 as stated: a submit to a batch other than the current one, or to the
\* closed current batch, fails; for a provider while not paused the error is
\* InvalidBatch, respectively BatchClosed.
C6_Original ==
    \A s \in Actors, b \in BatchIds, h \in Handles :
        /\ (WrongBatch(b) \/ ClosedCurrent(b)) => submitError(s, b, h) # "ok"
        /\ (isProvider[s] /\ ~paused) =>
               /\ WrongBatch(b) => submitError(s, b, h) = "InvalidBatch"
               /\ ClosedCurrent(b) => submitError(s, b, h) = "BatchClosed"

\* C6 as amended: such a submit fails and no such call can succeed; for a
\* provider while not paused whose submission cooldown has elapsed the error is
\* InvalidBatch, respectively BatchClosed.
C6_SubmitWrongOrClosedBatch ==
    \A s \in Actors, b \in BatchIds, h \in Handles :
        /\ (WrongBatch(b) \/ ClosedCurrent(b)) =>
               submitError(s, b, h) # "ok" /\ SubmitReverts(s, b, h)
        /\ (isProvider[s] /\ ~paused /\ submissionCooldown(s) = "ok") =>
               /\ WrongBatch(b) => submitError(s, b, h) = "InvalidBatch"
               /\ ClosedCurrent(b) => submitError(s, b, h) = "BatchClosed"

\* A provider outside its cooldown window, not paused, facing a closed current
\* batch that holds a submission.
C6_Witness ==
    /\ ~paused
    /\ isBatchClosed[currentBatchId]
    /\ \E a \in Assets : isInitialized(encryptedAssetAmounts[currentBatchId][a])
    /\ \E s \in Actors : /\ isProvider[s]
                         /\ lastSubmissionTime[s] > 0
                         /\ submissionCooldown(s) = "ok"

\* ------------------------------------------------------------------ C7
\* C7 as stated: a provider that submitted at time t and submits again before
\* t + cooldownSeconds fails with CooldownActive.
C7_Original ==
    \A s \in Actors, b \in BatchIds, h \in Handles :
        (isProvider[s] /\ InSubmitWindow(s)) => submitError(s, b, h) = "CooldownActive"

\* C7 as amended: inside the window no submit of that actor can succeed (the
\* stored handles and lastSubmissionTime stay), and while the contract is not
\* paused the provider's error is CooldownActive, or the arithmetic Panic when
\* t + cooldownSeconds exceeds uint256.
C7_CooldownRejects ==
    \A s \in Actors, b \in BatchIds, h \in Handles :
        InSubmitWindow(s) =>
            /\ SubmitReverts(s, b, h)
            /\ (isProvider[s] /\ ~paused) =>
                   submitError(s, b, h) =
                       (IF lastSubmissionTime[s] + cooldownSeconds > UintMax
                        THEN "Panic" ELSE "CooldownActive")

\* A provider strictly after its submission and still inside the window, with
\* the submitted handle in storage.
C7_Witness ==
    /\ ~paused
    /\ \E s \in Actors : /\ isProvider[s]
                         /\ InSubmitWindow(s)
                         /\ now > lastSubmissionTime[s]
    /\ \E b \in BatchIds, a \in Assets :
           isInitialized(encryptedAssetAmounts[b][a])
               \/ isInitialized(encryptedHedgeAmounts[b][a])

\* ------------------------------------------------------------------ C8
\* C8 as stated: requestBatchDecryption by the owner, while not paused, on a
\* batch that is not closed fails with InvalidBatch whatever the cooldown state.
C8_Original ==
    \A b \in BatchIds :
        (~paused /\ ~isBatchClosed[b]) => requestError(owner, b) = "InvalidBatch"

\* The owner's decryption cooldown window is still running.
InRequestWindow == now < lastDecryptionRequestTime[owner] + cooldownSeconds

\* C8 as amended: the call fails with InvalidBatch when the owner's decryption
\* cooldown has elapsed; while it is active it fails with CooldownActive, or
\* the arithmetic Panic when the window's end exceeds uint256; either way no
\* such call can succeed (no context, no request id, no timestamp).
C8_RequestOnOpenBatch ==
    \A b \in BatchIds :
        (~paused /\ ~isBatchClosed[b]) =>
            /\ requestError(owner, b) =
                   (IF ~InRequestWindow THEN "InvalidBatch"
                    ELSE IF lastDecryptionRequestTime[owner] + cooldownSeconds > UintMax
                    THEN "Panic" ELSE "CooldownActive")
            /\ ~ENABLED requestBatchDecryption(owner, b)

\* The owner has requested before, its cooldown has elapsed, and the current
\* batch is open.
C8_Witness ==
    /\ ~paused
    /\ ~isBatchClosed[currentBatchId]
    /\ lastDecryptionRequestTime[owner] > 0
    /\ ~InRequestWindow

\* ------------------------------------------------------------------ C9
\* C9: a submit by an actor outside the provider set fails with NotProvider in
\* every state, for every batch id and handle, and no such call can succeed.
C9_NonProviderRejected ==
    \A s \in Actors, b \in BatchIds, h \in Handles :
        ~isProvider[s] => /\ submitError(s, b, h) = "NotProvider"
                          /\ SubmitReverts(s, b, h)

\* An actor that submitted as a provider and was removed since.
C9_Witness ==
    \E s \in Actors : ~isProvider[s] /\ lastSubmissionTime[s] > 0

\* ------------------------------------------------------------------ C10
\* C10: while paused, closeCurrentBatch by the owner fails with Paused and
\* cannot succeed, and each administrative call of the owner succeeds with its
\* effect.
C10_PauseGatesLedgerNotAdmin ==
    paused =>
        /\ closeCurrentBatchError(owner) = "Paused"
        /\ ~ENABLED closeCurrentBatch(owner)
        /\ \A n \in Actors : ENABLED (transferOwnership(owner, n) /\ owner' = n)
        /\ \A p \in Actors : ENABLED (addProvider(owner, p) /\ isProvider'[p])
        /\ \A p \in Actors : ENABLED (removeProvider(owner, p) /\ ~isProvider'[p])
        /\ \A v \in BOOLEAN : ENABLED (setPaused(owner, v) /\ paused' = v)
        /\ \A c \in CooldownChoices :
               ENABLED (setCooldownSeconds(owner, c) /\ cooldownSeconds' = c)

\* Paused with the current batch still open.
C10_Witness == paused /\ ~isBatchClosed[currentBatchId]

\* ------------------------------------------------------------------ C11
\* C11: while paused, no step changes the ledger, the cooldown timestamps, the
\* decryption contexts, the issued request ids or the DecryptionCompleted log:
\* openNewBatch, closeCurrentBatch, both submits, requestBatchDecryption and
\* myCallback all fail while paused.
C11_PauseBlocksLedgerAndCoordinator ==
    [][paused => UNCHANGED <<ledgerVars, cooldownVars, decryptionContexts,
                             requestCounter, completed>>]_vars

\* ------------------------------------------------------------------ C12
\* C12: every DecryptionCompleted emitted carries the batchId of its context,
\* assetAmounts = [c0, c2] and hedgeAmounts = [c1, c3] for the cleartext words
\* [c0, c1, c2, c3] of its callback, and its context is processed; a context is
\* processed exactly when its event was emitted.
C12_PositionalDecode ==
    /\ \A i \in DOMAIN completed :
           LET e == completed[i]
               c == e.cleartexts
           IN  /\ e.assetAmounts = <<c[1], c[3]>>
               /\ e.hedgeAmounts = <<c[2], c[4]>>
               /\ e.batchId = decryptionContexts[e.requestId].batchId
               /\ decryptionContexts[e.requestId].processed
    /\ \A r \in RequestIds : decryptionContexts[r].processed <=> Emitted(r) = 1

\* The spec's example: [100, 0, 50, 20] for batch 1 gave ([100, 50], [0, 20]).
C12_Witness ==
    \E i \in DOMAIN completed :
        /\ completed[i].cleartexts = <<100, 0, 50, 20>>
        /\ completed[i].batchId = 1
        /\ completed[i].assetAmounts = <<100, 50>>
        /\ completed[i].hedgeAmounts = <<0, 20>>
        /\ decryptionContexts[completed[i].requestId].processed

\* ------------------------------------------------------------------ C13
\* Every owner-only call of s raises NotOwner and none of them can succeed.
OwnerOnlyRejected(s) ==
    /\ onlyOwner(s) = "NotOwner"
    /\ openNewBatchError(s) = "NotOwner"
    /\ closeCurrentBatchError(s) = "NotOwner"
    /\ \A b \in BatchIds : requestError(s, b) = "NotOwner"
    /\ \A n \in Actors : ~ENABLED transferOwnership(s, n)
    /\ \A p \in Actors : ~ENABLED addProvider(s, p) /\ ~ENABLED removeProvider(s, p)
    /\ \A v \in BOOLEAN : ~ENABLED setPaused(s, v)
    /\ \A c \in CooldownChoices : ~ENABLED setCooldownSeconds(s, c)
    /\ ~ENABLED openNewBatch(s)
    /\ ~ENABLED closeCurrentBatch(s)
    /\ \A b \in BatchIds : ~ENABLED requestBatchDecryption(s, b)

\* transferOwnership(n) by the owner succeeds and makes n the owner.
TransferInstalls(n) ==
    /\ ENABLED (transferOwnership(owner, n) /\ owner' = n)
    /\ ~ENABLED (transferOwnership(owner, n) /\ owner' # n)

\* C13 as stated: every actor other than the owner is rejected with NotOwner
\* by every owner-only operation, and after every transferOwnership(n) the new
\* owner is n and the caller is no longer the owner.
C13_Original ==
    /\ \A s \in Actors : s # owner => OwnerOnlyRejected(s)
    /\ \A n \in Actors :
           /\ TransferInstalls(n)
           /\ ~ENABLED (transferOwnership(owner, n) /\ owner' = owner)

\* C13 as amended: as stated, with the caller losing ownership when the new
\* owner is another actor (a transfer to oneself keeps the caller the owner).
C13_OwnerOnly ==
    /\ \A s \in Actors : s # owner => OwnerOnlyRejected(s)
    /\ \A n \in Actors :
           /\ TransferInstalls(n)
           /\ n # owner => ~ENABLED (transferOwnership(owner, n) /\ owner' = owner)

\* Ownership has moved away from the deployer, in a state where the same call
\* by the owner would succeed: not paused, batch 1 closed, no cooldown running.
C13_Witness ==
    /\ owner # Deployer
    /\ OwnerOnlyRejected(Deployer)
    /\ requestError(owner, 1) = "ok"

\* ------------------------------------------------------------------ C14
\* The step is a successful submit of s: its guards pass and a handle is stored.
SubmitSucceeds(s) ==
    \E b \in BatchIds, a \in Assets, h \in Handles :
        /\ submitError(s, b, h) = "ok"
        /\ \/ /\ encryptedAssetAmounts' =
                     [encryptedAssetAmounts EXCEPT ![b][a] = h]
              /\ UNCHANGED encryptedHedgeAmounts
           \/ /\ encryptedHedgeAmounts' =
                     [encryptedHedgeAmounts EXCEPT ![b][a] = h]
              /\ UNCHANGED encryptedAssetAmounts

\* The step is a successful requestBatchDecryption of s: its guards pass and a
\* context is stored under a fresh request id.
RequestSucceeds(s) ==
    \E b \in BatchIds :
        /\ requestError(s, b) = "ok"
        /\ requestCounter' = requestCounter + 1
        /\ decryptionContexts'[requestCounter'].batchId = b

\* C14: a cooldown timestamp changes only in the step of a successful guarded
\* operation of that actor, and then to the current time: lastSubmissionTime
\* with a successful submit, lastDecryptionRequestTime with a successful
\* requestBatchDecryption; a failed call is a revert and changes nothing.
C14_CooldownOnlyOnSuccess ==
    [][\A s \in Actors :
          /\ lastSubmissionTime'[s] # lastSubmissionTime[s] =>
                 lastSubmissionTime'[s] = now /\ SubmitSucceeds(s)
          /\ lastDecryptionRequestTime'[s] # lastDecryptionRequestTime[s] =>
                 lastDecryptionRequestTime'[s] = now /\ RequestSucceeds(s)]_vars

\* After a successful submit and a successful request, time has passed and a
\* further submit and a further request both fail: both timestamps still hold
\* the time of the success.
C14_Witness ==
    \E s \in Actors :
        /\ lastSubmissionTime[s] > 0 /\ lastSubmissionTime[s] < now
        /\ \A b \in BatchIds, h \in Handles : submitError(s, b, h) # "ok"
        /\ lastDecryptionRequestTime[owner] > 0 /\ lastDecryptionRequestTime[owner] < now
        /\ \A b \in BatchIds : requestError(owner, b) # "ok"

\* ------------------------------------------------------------------ C15
\* C15: in every step, a batch that is closed stays closed.
C15_ClosingIsOneWay ==
    [][\A b \in BatchIds : isBatchClosed[b] => isBatchClosed'[b]]_vars

\* Batch 1 is still closed after a newer batch was opened, the contract was
\* paused and the ownership was transferred.
C15_Witness ==
    /\ isBatchClosed[1]
    /\ currentBatchId > 1
    /\ paused
    /\ owner # Deployer

\* ------------------------------------------------------------------ C16
\* C16: in every step, the Amount and Hedge handles stored for a closed batch,
\* for every asset, stay what they are.
C16_ClosedBatchImmutable ==
    [][\A b \in BatchIds : isBatchClosed[b] =>
          /\ encryptedAssetAmounts'[b] = encryptedAssetAmounts[b]
          /\ encryptedHedgeAmounts'[b] = encryptedHedgeAmounts[b]]_vars

\* Batch 1 was closed holding a submission, and a newer batch is open for
\* submissions.
C16_Witness ==
    /\ isBatchClosed[1]
    /\ \E a \in Assets : \/ isInitialized(encryptedAssetAmounts[1][a])
                         \/ isInitialized(encryptedHedgeAmounts[1][a])
    /\ currentBatchId > 1
    /\ ~isBatchClosed[currentBatchId]
    /\ ~paused

\* ------------------------------------------------------------------ C17
\* C17: a request id for which a callback has failed with StateMismatch or
\* InvalidDecryptionProof is never finalized: its context stays unprocessed
\* and no DecryptionCompleted is emitted for it.
C17_IntegrityErrorTerminal ==
    \A r \in rejected : ~decryptionContexts[r].processed /\ Emitted(r) = 0

\* ------------------------------------------------------------------ C18
\* C18: a callback for a request id under which no context was ever stored
\* fails with InvalidBatch whatever the proof, and no such call can succeed.
C18_MissingContextInvalidBatch ==
    \A r \in RequestIds : ~Issued(r) =>
        \A p \in BOOLEAN : /\ callbackError(r, p) = "InvalidBatch"
                           /\ CallbackReverts(r, p)

\* ------------------------------------------------------------------ C19
\* A request whose context is stored and not yet processed.
Pending(r) == Issued(r) /\ ~decryptionContexts[r].processed

\* C19: whatever else is pending or finalized, a callback with a valid proof
\* for a pending request succeeds: it marks that context, emits
\* DecryptionCompleted with that request id and that context's batchId, and
\* leaves every other context as it is.
C19_CallbacksInAnyOrder ==
    \A r \in RequestIds : Pending(r) =>
        \A s \in Actors, c \in ClearChoices :
            ENABLED (/\ myCallback(s, r, c, TRUE)
                     /\ decryptionContexts'[r].processed
                     /\ completed'[Len(completed')].requestId = r
                     /\ completed'[Len(completed')].batchId = decryptionContexts[r].batchId
                     /\ \A q \in RequestIds \ {r} :
                            decryptionContexts'[q] = decryptionContexts[q])

\* Two requests on different closed batches were finalized, the later request
\* first, each event carrying the batchId of its own context.
C19_Witness ==
    /\ Len(completed) = 2
    /\ completed[1].requestId = 2
    /\ completed[2].requestId = 1
    /\ completed[1].batchId # completed[2].batchId
    /\ \A i \in 1 .. 2 :
           /\ decryptionContexts[completed[i].requestId].processed
           /\ decryptionContexts[completed[i].requestId].batchId = completed[i].batchId
           /\ isBatchClosed[completed[i].batchId]

\* ------------------------------------------------------------------ C20
\* What the decryption coordinator may only read: the registry, the ledger and
\* the submission timestamps.
readOnlyForCoordinator == <<registryVars, lastSubmissionTime, ledgerVars>>

\* The step is a successful call of one of the coordinator's two operations
\* (such a call issues a request id or emits an event: that is tested first).
CoordinatorCall ==
    /\ requestCounter' # requestCounter \/ completed' # completed
    /\ \/ \E s \in Actors, b \in BatchIds : requestBatchDecryption(s, b)
       \/ \E s \in Actors, r \in RequestIds, c \in ClearChoices, p \in BOOLEAN :
              myCallback(s, r, c, p)

\* C20: every step that is a call of requestBatchDecryption or of myCallback,
\* by any actor with any arguments, leaves owner, the provider set, paused,
\* cooldownSeconds, currentBatchId, every closed flag, every stored handle and
\* every lastSubmissionTime as they are (a failing call reverts and changes
\* nothing at all).
C20_CoordinatorOnlyReads ==
    [][CoordinatorCall => UNCHANGED readOnlyForCoordinator]_vars

\* A request was made and finalized for a batch that holds a submission of a
\* registered provider.
C20_Witness ==
    \E r \in RequestIds :
        /\ decryptionContexts[r].processed
        /\ \E a \in Assets :
               isInitialized(encryptedAssetAmounts[decryptionContexts[r].batchId][a])
        /\ \E s \in Actors : isProvider[s] /\ lastSubmissionTime[s] > 0
        /\ lastDecryptionRequestTime[owner] > 0

\* ------------------------------------------------------------------ C21
\* Of the map `before`, the map `after` differs at most at key (b, a), where it
\* holds h.
WritesOnlyKey(before, after, b, a, h) ==
    /\ after[b][a] = h
    /\ \A b2 \in BatchIds, a2 \in Assets :
           <<b2, a2>> # <<b, a>> => after[b2][a2] = before[b2][a2]

\* Only the submission timestamp of s moves, and it moves to the current time.
StampsOnlySubmitter(s) ==
    /\ lastSubmissionTime'[s] = now
    /\ \A t \in Actors \ {s} : lastSubmissionTime'[t] = lastSubmissionTime[t]
    /\ UNCHANGED lastDecryptionRequestTime

\* C21: every step that is a successful submit of kind Amount (of kind Hedge)
\* for (b, a) with handle h stores h under that key whatever was stored there,
\* sets the caller's lastSubmissionTime to the current time, and leaves the
\* map of the other kind, every other key, every other actor's timestamp and
\* every decryption-request timestamp as they are.
C21_SubmitFrame ==
    [][(encryptedAssetAmounts' # encryptedAssetAmounts
            \/ encryptedHedgeAmounts' # encryptedHedgeAmounts
            \/ lastSubmissionTime' # lastSubmissionTime) =>
       \A s \in Actors, b \in BatchIds, a \in Assets, h \in Handles :
          /\ submitEncryptedAssetAmount(s, b, a, h) =>
                 /\ WritesOnlyKey(encryptedAssetAmounts, encryptedAssetAmounts', b, a, h)
                 /\ UNCHANGED encryptedHedgeAmounts
                 /\ StampsOnlySubmitter(s)
          /\ submitEncryptedHedgeAmount(s, b, a, h) =>
                 /\ WritesOnlyKey(encryptedHedgeAmounts, encryptedHedgeAmounts', b, a, h)
                 /\ UNCHANGED encryptedAssetAmounts
                 /\ StampsOnlySubmitter(s)]_vars

\* Two providers have each submitted and one key only holds a handle, so the
\* later submission overwrote the earlier one; the current batch is still open.
C21_Witness ==
    /\ \A s \in Actors : isProvider[s] /\ lastSubmissionTime[s] > 0
    /\ ~isBatchClosed[currentBatchId]
    /\ Cardinality({k \in BatchIds \X Assets \X {"Amount", "Hedge"} :
           IF k[3] = "Amount"
           THEN isInitialized(encryptedAssetAmounts[k[1]][k[2]])
           ELSE isInitialized(encryptedHedgeAmounts[k[1]][k[2]])}) = 1

\* ------------------------------------------------------------------ C22
\* The ordered handle list of batch b as the claim spells it out.
OrderedHandles(b) ==
    << encryptedAssetAmounts[b][Asset1], encryptedHedgeAmounts[b][Asset1],
       encryptedAssetAmounts[b][Asset2], encryptedHedgeAmounts[b][Asset2] >>

\* C22: every step that is a successful requestBatchDecryption(b) of s stores
\* under a request id not used before the context {b, hash of the ordered
\* handle list of b and the contract's address, processed = false}, hands the
\* same list to the oracle and emits DecryptionRequested with that id, batch
\* and hash, sets lastDecryptionRequestTime of s (the owner) to the current
\* time, and leaves every other context as it is.
C22_RequestStoresContext ==
    [][requestCounter' # requestCounter =>
       \A s \in Actors, b \in BatchIds :
          requestBatchDecryption(s, b) =>
             LET r == requestCounter'
                 h == <<OrderedHandles(b), ThisAddress>>
             IN  /\ ~Issued(r)
                 /\ \A i \in DOMAIN requested : requested[i].requestId # r
                 /\ decryptionContexts'[r] =
                        [batchId |-> b, stateHash |-> h, processed |-> FALSE]
                 /\ requested' = Append(requested,
                        [requestId |-> r, batchId |-> b, stateHash |-> h,
                         cts |-> OrderedHandles(b)])
                 /\ s = owner
                 /\ lastDecryptionRequestTime'[s] = now
                 /\ \A q \in RequestIds \ {r} :
                        decryptionContexts'[q] = decryptionContexts[q]]_vars

\* A request was made for a batch whose handle list depends on the order:
\* the hedge of asset 1 and the amount of asset 2 differ.
C22_Witness ==
    \E i \in DOMAIN requested :
        /\ requested[i].cts[2] # requested[i].cts[3]
        /\ decryptionContexts[requested[i].requestId].stateHash = requested[i].stateHash
        /\ lastDecryptionRequestTime[owner] = now

\* ------------------------------------------------------------------ C23
\* C23: while not paused, closeCurrentBatch by the owner succeeds and leaves
\* the current batch closed with nothing else changed; on a current batch that
\* is already closed it succeeds too (no InvalidBatch) and changes nothing, so
\* a second call leaves the state of the first.
C23_CloseIsIdempotent ==
    ~paused =>
        /\ closeCurrentBatchError(owner) = "ok"
        /\ ENABLED closeCurrentBatch(owner)
        /\ ~ENABLED (/\ closeCurrentBatch(owner)
                     /\ isBatchClosed' # [isBatchClosed EXCEPT ![currentBatchId] = TRUE])
        /\ isBatchClosed[currentBatchId] =>
               ~ENABLED (/\ closeCurrentBatch(owner)
                         /\ <<contractVars, envVars>>' # <<contractVars, envVars>>)

\* The current batch is closed and a request on it is pending, while the
\* contract is not paused.
C23_Witness ==
    /\ ~paused
    /\ isBatchClosed[currentBatchId]
    /\ \E r \in RequestIds :
           Pending(r) /\ decryptionContexts[r].batchId = currentBatchId

\* ------------------------------------------------------------------ C24
\* The step moves a cooldown record other than the submission record of s, or
\* moves the window or the clock.
TouchesOtherCooldown(s) ==
    \/ \E t \in Actors \ {s} : lastSubmissionTime'[t] # lastSubmissionTime[t]
    \/ lastDecryptionRequestTime' # lastDecryptionRequestTime
    \/ cooldownSeconds' # cooldownSeconds
    \/ now' # now

\* No successful submit of s moves another record, and no successful request
\* moves a submission record.
CooldownRecordsIndependent ==
    /\ \A s \in Actors, b \in BatchIds, h \in Handles :
           submitError(s, b, h) = "ok" =>
               \A a \in Assets :
                   /\ ~ENABLED (submitEncryptedAssetAmount(s, b, a, h)
                                   /\ TouchesOtherCooldown(s))
                   /\ ~ENABLED (submitEncryptedHedgeAmount(s, b, a, h)
                                   /\ TouchesOtherCooldown(s))
    /\ \A s \in Actors, b \in BatchIds :
           requestError(s, b) = "ok" =>
               ~ENABLED (requestBatchDecryption(s, b)
                            /\ lastSubmissionTime' # lastSubmissionTime)

\* An actor is rejected with CooldownActive only on its own record of that
\* action class: submits on its lastSubmissionTime, requests on its
\* lastDecryptionRequestTime.
RejectedOnOwnRecordOnly ==
    /\ \A s \in Actors, b \in BatchIds, h \in Handles :
           submitError(s, b, h) = "CooldownActive" =>
               now < lastSubmissionTime[s] + cooldownSeconds
    /\ \A s \in Actors, b \in BatchIds :
           requestError(s, b) = "CooldownActive" =>
               now < lastDecryptionRequestTime[s] + cooldownSeconds

\* C24 as stated: the records are independent per actor and action class, and
\* a provider inside the window of its last submission is rejected with
\* CooldownActive for both kinds.
C24_Original ==
    /\ CooldownRecordsIndependent
    /\ RejectedOnOwnRecordOnly
    /\ \A s \in Actors, b \in BatchIds, h \in Handles :
           (isProvider[s] /\ InSubmitWindow(s)) =>
               /\ submitError(s, b, h) = "CooldownActive"
               /\ SubmitReverts(s, b, h)

\* C24 as amended: as stated, with the submission inside the window failing
\* for both kinds in every case, and with CooldownActive while the contract is
\* not paused (the arithmetic Panic when the window's end exceeds uint256).
C24_CooldownPerActorAndClass ==
    /\ CooldownRecordsIndependent
    /\ RejectedOnOwnRecordOnly
    /\ \A s \in Actors, b \in BatchIds, h \in Handles :
           (isProvider[s] /\ InSubmitWindow(s)) =>
               /\ SubmitReverts(s, b, h)
               /\ ~paused =>
                      submitError(s, b, h) =
                          (IF lastSubmissionTime[s] + cooldownSeconds > UintMax
                           THEN "Panic" ELSE "CooldownActive")

\* One provider has just submitted and is inside its window, while another
\* provider can submit and the owner can request a decryption.
C24_Witness ==
    \E s \in Actors, t \in Actors :
        /\ s # t
        /\ isProvider[s] /\ InSubmitWindow(s) /\ lastSubmissionTime[s] = now
        /\ submitError(s, currentBatchId, 1) = "CooldownActive"
        /\ isProvider[t] /\ submitError(t, currentBatchId, 1) = "ok"
        /\ \E b \in BatchIds : requestError(owner, b) = "ok"

\* ------------------------------------------------------------------ C25
\* The window of a record, measured with the present cooldownSeconds.
InWindow(lastRecorded) == now < lastRecorded + cooldownSeconds

\* A provider's submission to the open current batch, and the owner's request
\* for a closed batch, pass every check but the cooldown.
OnlyCooldownGatesSubmit(s) ==
    isProvider[s] /\ ~paused /\ ~isBatchClosed[currentBatchId]

OnlyCooldownGatesRequest(b) ==
    ~paused /\ isBatchClosed[b] /\ requestCounter < MaxRequests

\* C25 as stated: the cooldown check fails with CooldownActive exactly when
\* now < lastRecorded + cooldownSeconds, with the present cooldownSeconds.
C25_Original ==
    \A s \in Actors :
        /\ submissionCooldown(s) = "CooldownActive"
               <=> InWindow(lastSubmissionTime[s])
        /\ decryptionCooldown(s) = "CooldownActive"
               <=> InWindow(lastDecryptionRequestTime[s])

\* C25 as amended: the check passes exactly when
\* now >= lastRecorded + cooldownSeconds with the present cooldownSeconds, and
\* fails with CooldownActive exactly when now is below that sum and the sum
\* fits in uint256 (beyond, it fails with a Panic); a call gated by nothing
\* else succeeds exactly when the check passes.
C25_CooldownBoundary ==
    /\ \A s \in Actors :
           /\ submissionCooldown(s) = "ok" <=> ~InWindow(lastSubmissionTime[s])
           /\ submissionCooldown(s) = "CooldownActive"
                  <=> /\ InWindow(lastSubmissionTime[s])
                      /\ lastSubmissionTime[s] + cooldownSeconds <= UintMax
           /\ decryptionCooldown(s) = "ok"
                  <=> ~InWindow(lastDecryptionRequestTime[s])
           /\ decryptionCooldown(s) = "CooldownActive"
                  <=> /\ InWindow(lastDecryptionRequestTime[s])
                      /\ lastDecryptionRequestTime[s] + cooldownSeconds <= UintMax
    /\ \A s \in Actors : OnlyCooldownGatesSubmit(s) =>
           /\ ENABLED submitEncryptedAssetAmount(s, currentBatchId, Asset1, 1)
                  <=> ~InWindow(lastSubmissionTime[s])
           /\ ENABLED submitEncryptedHedgeAmount(s, currentBatchId, Asset1, 1)
                  <=> ~InWindow(lastSubmissionTime[s])
    /\ \A b \in BatchIds : OnlyCooldownGatesRequest(b) =>
           (ENABLED requestBatchDecryption(owner, b)
                <=> ~InWindow(lastDecryptionRequestTime[owner]))

\* The owner has set the window to 0 and a provider has made two submissions
\* at the same time; a third is permitted at once.
C25_Witness ==
    \E s \in Actors :
        /\ cooldownSeconds = 0
        /\ lastSubmissionTime[s] = now
        /\ \A t \in Actors \ {s} : lastSubmissionTime[t] = 0
        /\ OnlyCooldownGatesSubmit(s)
        /\ isInitialized(encryptedAssetAmounts[currentBatchId][Asset1])
        /\ isInitialized(encryptedHedgeAmounts[currentBatchId][Asset1])
        /\ now = StartTime
        /\ submitError(s, currentBatchId, 1) = "ok"

\* ------------------------------------------------------------------ C26
\* C26: a callback's outcome does not depend on its caller: whenever a
\* callback with (requestId, cleartexts, proof) succeeds for one caller, the
\* same callback by any other caller succeeds from the same state with the
\* same resulting state; when it fails, callbackError gives the error from
\* the context, the hash comparison and the proof check alone, and the state
\* is unchanged for every caller.
C26_CallerIrrelevant ==
    [][completed' # completed =>
          \A s \in Actors, r \in RequestIds, c \in ClearChoices, p \in BOOLEAN :
              myCallback(s, r, c, p) =>
                  \A t \in Actors : myCallback(t, r, c, p)]_vars

\* A callback has succeeded while some actor is neither the owner nor a
\* provider.
C26_Witness ==
    /\ Len(completed) > 0
    /\ decryptionContexts[completed[1].requestId].processed
    /\ \E t \in Actors : t # owner /\ ~isProvider[t]

\* ------------------------------------------------------------------ C27
\* The DecryptionRequested events of request r.
RequestedFor(r) == {j \in DOMAIN requested : requested[j].requestId = r}

\* C27: events follow the data flow: every DecryptionCompleted(R, b, ..) has
\* exactly one earlier DecryptionRequested(R, b, h), and every
\* DecryptionRequested names a batch that was closed before; in every state
\* each stored context refers to a Closed batch, and a processed context was
\* created by an earlier request.
C27_EventsFollowDataFlow ==
    /\ \A i \in DOMAIN completed :
           /\ Cardinality(RequestedFor(completed[i].requestId)) = 1
           /\ \A j \in RequestedFor(completed[i].requestId) :
                  requested[j].batchId = completed[i].batchId
    /\ \A j \in DOMAIN requested :
           /\ isBatchClosed[requested[j].batchId]
           /\ Issued(requested[j].requestId)
           /\ decryptionContexts[requested[j].requestId] =
                  [batchId   |-> requested[j].batchId,
                   stateHash |-> requested[j].stateHash,
                   processed |-> Emitted(requested[j].requestId) > 0]
    /\ \A r \in RequestIds :
           /\ Issued(r) =>
                  /\ isBatchClosed[decryptionContexts[r].batchId]
                  /\ Cardinality(RequestedFor(r)) = 1
           /\ decryptionContexts[r].processed => Issued(r)
           /\ ~Issued(r) => RequestedFor(r) = {} /\ Emitted(r) = 0

\* Two requests were made for one batch and the second one is completed.
C27_Witness ==
    /\ Len(requested) = 2
    /\ requested[1].batchId = requested[2].batchId
    /\ Len(completed) = 1
    /\ completed[1].requestId = requested[2].requestId
    /\ ~decryptionContexts[requested[1].requestId].processed

\* ------------------------------------------------------------------ C28
\* The step leaves the snapshot of every batch, and with it the outcome of
\* every callback, as it was.
SnapshotUntouched ==
    /\ \A b \in BatchIds :
           /\ Ciphertexts(b)' = Ciphertexts(b)
           /\ _hashCiphertexts(Ciphertexts(b))' = _hashCiphertexts(Ciphertexts(b))
    /\ \A r \in RequestIds, p \in BOOLEAN :
           callbackError(r, p)' = callbackError(r, p)
    /\ UNCHANGED <<decryptionContexts, requested, completed>>

\* C28: a submission for an asset outside the two hard-coded ones is accepted
\* and stored, and changes neither the ciphertext list and stateHash that a
\* request or a callback computes for any batch nor any event of the
\* decryption flow; a request hands the oracle the four handles of the two
\* hard-coded assets only, so only their values are decrypted and emitted.
C28_SnapshotIgnoresOtherAssets ==
    [][(<<encryptedAssetAmounts, encryptedHedgeAmounts>>'
            # <<encryptedAssetAmounts, encryptedHedgeAmounts>>
        \/ requested' # requested
        \/ completed' # completed) =>
          /\ \A s \in Actors, b \in BatchIds, h \in Handles :
                 /\ submitEncryptedAssetAmount(s, b, OtherAsset, h) =>
                        /\ encryptedAssetAmounts'[b][OtherAsset] = h
                        /\ SnapshotUntouched
                 /\ submitEncryptedHedgeAmount(s, b, OtherAsset, h) =>
                        /\ encryptedHedgeAmounts'[b][OtherAsset] = h
                        /\ SnapshotUntouched
          /\ \A s \in Actors, b \in BatchIds :
                 requestBatchDecryption(s, b) =>
                     LET cts == requested'[Len(requested')].cts IN
                     /\ Len(cts) = 4
                     /\ cts = <<encryptedAssetAmounts[b][Asset1],
                                encryptedHedgeAmounts[b][Asset1],
                                encryptedAssetAmounts[b][Asset2],
                                encryptedHedgeAmounts[b][Asset2]>>
                     /\ decryptionContexts'[requestCounter'].stateHash =
                            <<cts, ThisAddress>>
          /\ \A s \in Actors, r \in RequestIds, c \in ClearChoices :
                 myCallback(s, r, c, TRUE) =>
                     LET e == completed'[Len(completed')] IN
                     /\ Len(e.assetAmounts) = 2 /\ Len(e.hedgeAmounts) = 2
                     /\ e.cleartexts = c
                     /\ Len(c) = Len(Ciphertexts(decryptionContexts[r].batchId))]_vars

\* A batch holding only a submission for the third asset was closed, requested
\* and completed: the oracle was handed four empty handles.
C28_Witness ==
    /\ Len(completed) = 1
    /\ Len(requested) = 1
    /\ \/ isInitialized(encryptedAssetAmounts[completed[1].batchId][OtherAsset])
       \/ isInitialized(encryptedHedgeAmounts[completed[1].batchId][OtherAsset])
    /\ requested[1].cts = <<ZeroHandle, ZeroHandle, ZeroHandle, ZeroHandle>>
    /\ decryptionContexts[requested[1].requestId].stateHash =
           <<requested[1].cts, ThisAddress>>

\* ------------------------------------------------------------------ C29
\* C29: for every context created by a request the recomputed hash equals the
\* stored stateHash, so no callback for it fails with StateMismatch; a pending
\* context can be finalized by a callback with a valid proof in every
\* reachable state, whatever time has passed and whatever was done meanwhile.
C29_PendingStaysFinalizable ==
    \A r \in RequestIds : Issued(r) =>
        /\ HashMatches(r)
        /\ \A p \in BOOLEAN : callbackError(r, p) # "StateMismatch"
        /\ Pending(r) =>
               /\ callbackError(r, TRUE) = "ok"
               /\ \E s \in Actors, c \in ClearChoices :
                      ENABLED (myCallback(s, r, c, TRUE) /\ ~Pending(r)')

\* A request for a batch with a submission is still pending after time has
\* passed and the owner has paused the contract.
C29_Witness ==
    \E r \in RequestIds :
        /\ Pending(r)
        /\ paused
        /\ now > lastDecryptionRequestTime[owner]
        /\ lastDecryptionRequestTime[owner] > 0
        /\ \E a \in Assets :
               isInitialized(encryptedAssetAmounts[decryptionContexts[r].batchId][a])

\* ------------------------------------------------------------------ C30
\* Batch b was still Open when openNewBatch moved past it.
Abandoned(b) == b >= 1 /\ b < currentBatchId /\ ~isBatchClosed[b]

\* No call can close an abandoned batch, move currentBatchId back to it or
\* write a submission into it, and no request for it succeeds; nothing of it
\* has been requested or decrypted.
NeverDecrypted(b) ==
    /\ \A s \in Actors :
           /\ ~ENABLED (closeCurrentBatch(s) /\ isBatchClosed'[b])
           /\ ~ENABLED (openNewBatch(s) /\ currentBatchId' <= b)
           /\ requestError(s, b) # "ok"
           /\ ~ENABLED requestBatchDecryption(s, b)
           /\ \A h \in Handles :
                  /\ submitError(s, b, h) # "ok"
                  /\ \A a \in Assets :
                         /\ ~ENABLED submitEncryptedAssetAmount(s, b, a, h)
                         /\ ~ENABLED submitEncryptedHedgeAmount(s, b, a, h)
    /\ \A r \in RequestIds : Issued(r) => decryptionContexts[r].batchId # b
    /\ \A j \in DOMAIN requested : requested[j].batchId # b
    /\ \A i \in DOMAIN completed : completed[i].batchId # b

\* C30 as stated: an abandoned batch is never closed, submitted to or
\* decrypted, and the owner's request for it, while not paused, fails with
\* InvalidBatch.
C30_Original ==
    \A b \in BatchIds : Abandoned(b) =>
        /\ NeverDecrypted(b)
        /\ ~paused => requestError(owner, b) = "InvalidBatch"

\* C30 as amended: as stated, with the owner's request for an abandoned batch
\* failing with InvalidBatch once the owner's decryption cooldown has elapsed,
\* and with CooldownActive (Panic beyond uint256) before.
C30_AbandonedForGood ==
    \A b \in BatchIds : Abandoned(b) =>
        /\ NeverDecrypted(b)
        /\ ~paused =>
               requestError(owner, b) =
                   (IF ~InRequestWindow THEN "InvalidBatch"
                    ELSE IF lastDecryptionRequestTime[owner] + cooldownSeconds > UintMax
                    THEN "Panic" ELSE "CooldownActive")

\* Batch 1 holds a submission and was abandoned; the batch after it is closed
\* and the owner can request its decryption, but not that of batch 1.
C30_Witness ==
    /\ Abandoned(1)
    /\ \E a \in Assets : isInitialized(encryptedAssetAmounts[1][a])
    /\ isBatchClosed[currentBatchId]
    /\ requestError(owner, currentBatchId) = "ok"
    /\ requestError(owner, 1) = "InvalidBatch"

\* ------------------------------------------------------------------ C31
\* The DecryptionCompleted events of batch b.
CompletedFor(b) == {i \in DOMAIN completed : completed[i].batchId = b}

\* C31: a batch is finalized once: at most one DecryptionCompleted is ever
\* emitted for a batch, also when the owner requests its decryption again
\* after the cooldown and a valid callback arrives for the new request.
C31_FinalizedOncePerBatch ==
    \A b \in BatchIds : Cardinality(CompletedFor(b)) <= 1

====
